---- MODULE Spec2Model ----
(***************************************************************************)
(* Role-based access control of the chat backend: the per-request role     *)
(* context (current_user_roles), the query rewriter hooked on every ORM    *)
(* execution (apply_role_based_filtering), the authentication              *)
(* dependencies (get_current_user, get_current_user_with_context), the     *)
(* role guard (require_role / require_admin) and the endpoints that issue  *)
(* Configuration queries.                                                  *)
(***************************************************************************)
EXTENDS Naturals, Integers, Sequences, FiniteSets, TLC

(***************************************************************************)
(* Bounds of the model                                                     *)
(***************************************************************************)
\* Most rows of the conversations table; a conversation is numbered by the
\* order of its creation.
MaxConversations == 2
\* Most rows of the feedback table.
MaxFeedback == 2
\* Longest tuple of required roles handed to require_role.
MaxRequired == 2

(***************************************************************************)
(* The finite universe the model draws identifiers from                    *)
(***************************************************************************)
RoleNames == {"ADMIN", "MANAGER", "OIS"}
\* User rows the database is seeded with, and the id of the next one.
Users == {"u1", "u2"}
UserIds == Users \cup {"u3"}
\* Configuration rows the database is seeded with, and the id the next
\* created configuration gets (uuid4: an id no row has).
Configurations == {"c1", "c2"}
ConfigurationIds == Configurations \cup {"c3"}
\* Domain rows the database is seeded with, and the id of the next one.
Domains == {"d1"}
DomainIds == Domains \cup {"d2"}
\* Every role name a request can mention: the seeded roles the grants use,
\* and the default role of a signup.
AllRoleNames == RoleNames \cup {"USER"}
None == "None"

Range(seq) == {seq[i] : i \in DOMAIN seq}
InvalidToken == "invalid"
\* Slots of the requests the host handles concurrently: a request runs in
\* an asyncio task of its own, and a later request takes a free slot again.
Tasks == {1, 2}
\* The slot the component-level calls are made in.
UnitTask == CHOOSE t \in Tasks : \A u \in Tasks : t <= u

\* The routes of the /admin router, all behind require_admin.
AdminEndpoints ==
    {"list_users", "assign_user_roles", "list_roles", "create_role",
     "list_domains", "create_domain", "list_all_configurations",
     "create_configuration", "get_usage_statistics",
     "fetch_configurations_for_domain"}

Endpoints ==
    {"chat_askatt", "chat_askdocs", "list_configurations",
     "submit_message_feedback"} \cup AdminEndpoints

VARIABLES
    users,                      \* users table: id -> row
    roles_table,                \* roles table: the names of its rows
    user_roles,                 \* user_roles table: user -> role names
    domains,                    \* domains table: id -> row
    configurations,             \* configurations table: id -> row
    role_configuration_access,  \* grant table: configuration -> role names
    conversations,              \* conversations table: id -> row
    messages,                   \* messages table: the sequence of its rows
    feedback,                   \* feedback table: the sequence of its rows
    current_user_roles,         \* the ContextVar: one slot per task context
    req,                        \* per task: the request it handles
    lastQuery,                  \* per task: the last ORM execution it made
    unit                        \* component-level calls (set / get / guard)

vars == <<users, roles_table, user_roles, domains, configurations,
          role_configuration_access, conversations, messages, feedback,
          current_user_roles, req, lastQuery, unit>>

(***************************************************************************)
(* Request Identity Context: ContextVar("current_user_roles",              *)
(* default=set())                                                          *)
(***************************************************************************)
\* A context in which the variable was never set.
Unset == [isset |-> FALSE, val |-> {}]

\* Variant: the variable declared without a default, so that get() raises
\* LookupError in a context where it was never set.
ContextGetNoDefault(c) ==
    IF c.isset THEN [ok |-> TRUE, val |-> c.val]
               ELSE [ok |-> FALSE, val |-> {}]

\* ContextVar.get(): the value set in the current context, else the
\* default given at construction (an empty set); never raises.
ContextGet(c) ==
    IF c.isset THEN [ok |-> TRUE, val |-> c.val]
               ELSE [ok |-> TRUE, val |-> {}]

\* Variant: a module-level global instead of a context variable.
ContextSetGlobal(ctx, t, v) ==
    [x \in DOMAIN ctx |-> [isset |-> TRUE, val |-> v]]

\* Variant: a write-once slot that keeps the first value.
ContextSetOnce(ctx, t, v) ==
    IF ctx[t].isset THEN ctx
    ELSE [ctx EXCEPT ![t] = [isset |-> TRUE, val |-> v]]

\* ContextVar.set(v) changes the variable in the current task's context only.
ContextSet(ctx, t, v) == [ctx EXCEPT ![t] = [isset |-> TRUE, val |-> v]]

\* Variant: a slot keyed by the worker, which a later request inherits.
NewTaskContextKept(ctx, t) == ctx

\* The host handles each request in a task of its own, whose context is a
\* copy of the host's context; nothing sets the variable there.
NewTaskContext(ctx, t) == [ctx EXCEPT ![t] = Unset]

(***************************************************************************)
(* Role-Based Query Rewriter                                               *)
(***************************************************************************)
\* A statement: the mapped entity it selects, the rows its own WHERE
\* clause selects, whether it is a column / relationship load, and the
\* loader criteria attached to it (each a set of role names).
Statement(entity, where, is_load) ==
    [entity |-> entity, where |-> where, is_load |-> is_load, options |-> <<>>]

\* Variant: the listener without the ADMIN exemption.
apply_role_based_filtering_NoAdminBypass(stmt, c) ==
    IF stmt.is_load
    THEN [raised |-> FALSE, read |-> FALSE, roles |-> {}, statement |-> stmt]
    ELSE LET got == ContextGet(c) IN
         IF ~got.ok
         THEN [raised |-> TRUE, read |-> TRUE, roles |-> {}, statement |-> stmt]
         ELSE IF got.val = {}
         THEN [raised |-> FALSE, read |-> TRUE, roles |-> got.val,
               statement |-> stmt]
         ELSE [raised |-> FALSE, read |-> TRUE, roles |-> got.val,
               statement |-> [stmt EXCEPT !.options = Append(@, got.val)]]

\* Variant: the listener without the exemption of an empty role set.
apply_role_based_filtering_FailClosed(stmt, c) ==
    IF stmt.is_load
    THEN [raised |-> FALSE, read |-> FALSE, roles |-> {}, statement |-> stmt]
    ELSE LET got == ContextGet(c) IN
         IF ~got.ok
         THEN [raised |-> TRUE, read |-> TRUE, roles |-> {}, statement |-> stmt]
         ELSE IF "ADMIN" \in got.val
         THEN [raised |-> FALSE, read |-> TRUE, roles |-> got.val,
               statement |-> stmt]
         ELSE [raised |-> FALSE, read |-> TRUE, roles |-> got.val,
               statement |-> [stmt EXCEPT !.options = Append(@, got.val)]]

\* Variant: the listener without the exemption of column and relationship
\* loads.
apply_role_based_filtering_NoLoadSkip(stmt, c) ==
    LET got == ContextGet(c) IN
    IF ~got.ok
    THEN [raised |-> TRUE, read |-> TRUE, roles |-> {}, statement |-> stmt]
    ELSE IF got.val = {} \/ "ADMIN" \in got.val
    THEN [raised |-> FALSE, read |-> TRUE, roles |-> got.val,
          statement |-> stmt]
    ELSE [raised |-> FALSE, read |-> TRUE, roles |-> got.val,
          statement |-> [stmt EXCEPT !.options = Append(@, got.val)]]

\* The do_orm_execute listener.
apply_role_based_filtering(stmt, c) ==
    IF stmt.is_load
    THEN [raised |-> FALSE, read |-> FALSE, roles |-> {}, statement |-> stmt]
    ELSE LET got == ContextGet(c) IN
         IF ~got.ok
         THEN [raised |-> TRUE, read |-> TRUE, roles |-> {}, statement |-> stmt]
         ELSE IF got.val = {} \/ "ADMIN" \in got.val
         THEN [raised |-> FALSE, read |-> TRUE, roles |-> got.val,
               statement |-> stmt]
         ELSE [raised |-> FALSE, read |-> TRUE, roles |-> got.val,
               statement |-> [stmt EXCEPT !.options = Append(@, got.val)]]

\* Variant: the criterion written as "every granted role is held".
LoaderCriterionSubset(grants, cfg, roles) == grants[cfg] \subseteq roles

\* with_loader_criteria(Configuration, cls.roles.any(Role.name.in_(roles))):
\* a Configuration row satisfies the criterion iff one of its granted roles
\* is named in roles.
LoaderCriterion(grants, cfg, roles) == \E r \in grants[cfg] : r \in roles

\* Variant: no criterion narrows the rows.
ExecuteUnfiltered(stmt, grants) == stmt.where

\* Variant: the criterion applied to the rows of every entity; a row of
\* another entity has no grant and passes no criterion.
ExecuteEveryEntity(stmt, grants) ==
    IF stmt.entity = "Configuration"
    THEN {c \in stmt.where :
            \A i \in DOMAIN stmt.options :
                LoaderCriterion(grants, c, stmt.options[i])}
    ELSE IF stmt.options = <<>> THEN stmt.where ELSE {}

\* Rows a statement returns: its own selection, narrowed by every loader
\* criterion when the entity is Configuration.
Execute(stmt, grants) ==
    IF stmt.entity = "Configuration"
    THEN {c \in stmt.where :
            \A i \in DOMAIN stmt.options :
                LoaderCriterion(grants, c, stmt.options[i])}
    ELSE stmt.where

\* Session.execute: the listener runs first, then the statement.
DbExecute(stmt, c, grants, afterSet) ==
    LET h == apply_role_based_filtering(stmt, c) IN
    [entity   |-> stmt.entity,
     where    |-> stmt.where,
     read     |-> h.read,
     roles    |-> h.roles,
     afterSet |-> afterSet,
     raised   |-> h.raised,
     options  |-> h.statement.options,
     rows     |-> IF h.raised THEN {} ELSE Execute(h.statement, grants)]

NoQuery ==
    [entity |-> None, where |-> {}, read |-> FALSE, roles |-> {},
     afterSet |-> FALSE, raised |-> FALSE, options |-> <<>>, rows |-> {}]

(***************************************************************************)
(* Authorization guard                                                     *)
(***************************************************************************)
\* Variant: all() where the code has any().
role_checker_all(roles, required) ==
    IF \A i \in DOMAIN required : required[i] \in roles
    THEN [status |-> 200, detail |-> <<>>]
    ELSE [status |-> 403, detail |-> required]

\* role_checker of require_role: required is the tuple required_roles.
role_checker(roles, required) ==
    IF \E i \in DOMAIN required : required[i] \in roles
    THEN [status |-> 200, detail |-> <<>>]
    ELSE [status |-> 403, detail |-> required]

require_admin == <<"ADMIN">>

\* The tuple of roles an endpoint's guard requires (<<>>: no guard).
GuardOf(e) == IF e \in AdminEndpoints THEN require_admin ELSE <<>>

\* Variant: only the list of all configurations behind require_admin.
GuardedListOnly(e) == e = "list_all_configurations"

\* Endpoints that depend on require_admin.
Guarded(e) == e \in AdminEndpoints

\* Variant: chat_askdocs depending on get_current_user.
UsesContextListOnly(e) == e = "list_configurations"

\* Endpoints that depend on get_current_user_with_context.
UsesContext(e) == e \in {"chat_askdocs", "list_configurations"}

(***************************************************************************)
(* Requests                                                                *)
(***************************************************************************)
\* conv: the conversation_id of the body (0: none given); target, role_ids
\* and name: the body of an /admin request; committed: the rows the request
\* has committed so far; fetched: the external configuration fetch was made;
\* detail: the text of the error sent; raised: the exception that ended it;
\* attid, email and password: the body of a signup or a login; token: the
\* access token a login returned or a request presents, and issuedTo: the
\* user the login that issued it had authenticated.
IdleReq ==
    [pc |-> "idle", endpoint |-> None, cred |-> None, cfg |-> None,
     env |-> None, message_id |-> 0, conv |-> 0, target |-> None,
     role_ids |-> <<>>, name |-> None, roles |-> {}, hasSet |-> FALSE,
     status |-> 0, event |-> None, rows |-> {}, committed |-> {},
     fetched |-> FALSE, detail |-> None, raised |-> None, prior |-> FALSE,
     attid |-> None, email |-> None, password |-> None, token |-> <<>>,
     issuedTo |-> None, rating |-> 0]

Environments == {"stage", "production"}

TypeOK ==
    /\ \A u \in DOMAIN user_roles : user_roles[u] \subseteq AllRoleNames
    /\ \A c \in DOMAIN role_configuration_access :
          role_configuration_access[c] \subseteq AllRoleNames
    /\ \A t \in Tasks : current_user_roles[t].val \subseteq AllRoleNames
    /\ roles_table \subseteq AllRoleNames
    /\ DOMAIN users \subseteq UserIds
    /\ DOMAIN user_roles = DOMAIN users
    /\ DOMAIN domains \subseteq DomainIds
    /\ DOMAIN configurations \subseteq ConfigurationIds
    /\ DOMAIN role_configuration_access = DOMAIN configurations
    /\ DOMAIN conversations \subseteq 1..MaxConversations
    /\ \A t \in Tasks : req[t].pc \in
         {"idle", "token", "auth", "handler", "email", "role", "commit",
          "create", "cfg_check", "conv", "add", "history", "done"}
    /\ \A t \in Tasks : req[t].issuedTo \in UserIds \cup {None}

\* Role sets the seeded users hold, and the seeded grants: one
\* configuration granted to MANAGER and ADMIN, one granted to OIS only.
SeedRoleSets == {{}, {"MANAGER"}, {"ADMIN", "OIS"}}
SeedGrants == [c \in Configurations |->
                 IF c = "c1" THEN {"MANAGER", "ADMIN"} ELSE {"OIS"}]
SeedEnvironment(c) == IF c = "c1" THEN "production" ELSE "stage"
SeedConfigKey(c) == IF c = "c1" THEN "k1" ELSE "k2"
\* A seeded configuration row: both belong to the seeded domain.
SeedConfiguration(c, active) ==
    [domain_id |-> "d1", config_key |-> SeedConfigKey(c),
     is_active |-> active, environment |-> SeedEnvironment(c)]

\* The seeded rows of the other tables: a hash stands for the password it
\* was made from.
SeedUsers ==
    [u \in Users |->
        [attid |-> IF u = "u1" THEN "a1" ELSE "a2",
         email |-> IF u = "u1" THEN "e1" ELSE "e2",
         password_hash |-> <<"hash", "p1">>,
         is_active |-> TRUE]]
SeedDomains == [d \in Domains |-> [domain_key |-> "dk1"]]
\* One AskDocs conversation of u1 on the configuration granted to OIS.
SeedConversations ==
    [k \in {1} |->
        [user_id |-> "u1", service_type |-> "askdocs",
         configuration_id |-> "c2"]]

\* One message of the seeded conversation, in the messages table of the
\* database the service is started on.
SeedMessages == <<[conversation_id |-> 1, role |-> "assistant"]>>

\* The tables the role context and the guard do not depend on.
SeedTables ==
    /\ users = SeedUsers
    /\ roles_table = AllRoleNames
    /\ domains = SeedDomains
    /\ conversations = SeedConversations
    /\ messages = <<>>
    /\ feedback = <<>>

\* of, load: the relationship load executed since the last step on the
\* context or the session: the configuration it was for, and the execution.
NoUnit == [sets |-> <<>>, qAt |-> 0, roles |-> {}, required |-> <<>>,
           outcome |-> [status |-> 0, detail |-> <<>>],
           of |-> None, load |-> NoQuery]

Init ==
    /\ user_roles \in [Users -> SeedRoleSets]
    /\ role_configuration_access = SeedGrants
    /\ configurations =
         [c \in Configurations |-> SeedConfiguration(c, TRUE)]
    /\ users = SeedUsers
    /\ roles_table = AllRoleNames
    /\ domains = SeedDomains
    /\ conversations = SeedConversations
    /\ messages = SeedMessages
    /\ feedback = <<>>
    /\ current_user_roles = [t \in Tasks |-> Unset]
    /\ req = [t \in Tasks |-> IdleReq]
    /\ lastQuery = [t \in Tasks |-> NoQuery]
    /\ unit = NoUnit

dbUnchanged ==
    UNCHANGED <<users, roles_table, user_roles, domains, configurations,
                role_configuration_access, conversations, messages,
                feedback>>


(***************************************************************************)
(* A request arrives: the host starts a task for it.                       *)
(***************************************************************************)
NewReq(e, cred, cfg, env, message_id) ==
    [IdleReq EXCEPT !.pc = "auth", !.endpoint = e, !.cred = cred,
                    !.cfg = cfg, !.env = env, !.message_id = message_id]

\* prior: the request that held this slot before stored a non-empty role set.
\* A chat request: conv is the conversation_id of its body.
NewChat(e, cred, cfg, conv) ==
    [NewReq(e, cred, cfg, None, 0) EXCEPT !.conv = conv]

\* A feedback request: message_id is its path parameter, rating the rating
\* of its body.
NewFeedback(cred, message_id, rating) ==
    [NewReq("submit_message_feedback", cred, None, None, message_id)
        EXCEPT !.rating = rating]

\* The message ids requests name: the seeded message and one no row has.
MessageIds == {1, 2}

StoredRoles(r) == r.hasSet /\ r.roles # {}

RequestInputs ==
    {NewChat("chat_askatt", cred, None, k) :
        cred \in Users \cup {InvalidToken},
        k \in DOMAIN SeedConversations}
    \cup
    {NewChat("chat_askdocs", cred, cfg, k) :
        cred \in Users \cup {InvalidToken},
        cfg \in Configurations \cup {None},
        k \in DOMAIN SeedConversations}
    \cup
    {NewReq("list_configurations", cred, None, env, 0) :
        cred \in Users \cup {InvalidToken},
        env \in Environments \cup {None}}
    \cup
    {NewFeedback(cred, message_id, rating) :
        cred \in Users \cup {InvalidToken},
        message_id \in MessageIds,
        rating \in {4}}
    \cup
    {NewReq("list_all_configurations", cred, None, None, 0) :
        cred \in Users \cup {InvalidToken}}

\* The host takes one of the requests in inputs into the slot t.
Start(t, inputs) ==
    /\ req[t].pc \in {"idle", "done"}
    /\ \E r \in inputs :
          req' = [req EXCEPT ![t] = [r EXCEPT !.prior = StoredRoles(req[t])]]
    /\ current_user_roles' = NewTaskContext(current_user_roles, t)
    /\ lastQuery' = [lastQuery EXCEPT ![t] = NoQuery]
    /\ dbUnchanged
    /\ UNCHANGED unit

StartRequest(t) == Start(t, RequestInputs)

\* The response of a request that ends here.
Respond(r, status, event, rows) ==
    [r EXCEPT !.pc = "done", !.status = status, !.event = event, !.rows = rows]

\* The stream ends after one error event.
RespondError(r, detail) ==
    [Respond(r, r.status, "error", {}) EXCEPT !.detail = detail]

\* An HTTPException raised by a handler: the status and its detail.
RespondStatus(r, status, detail) ==
    [Respond(r, status, None, {}) EXCEPT !.detail = detail]

\* An exception no handler catches ends the request: the catch-all
\* exception handler answers 500, unless the response has started.
Raise(r, exception) ==
    [r EXCEPT !.pc = "done", !.raised = exception,
              !.status = IF @ = 0 THEN 500 ELSE @]

(***************************************************************************)
(* Dependencies: get_current_user, get_current_user_with_context and the   *)
(* role_checker of require_admin.  No await separates the user lookup      *)
(* from set, nor from the guard.                                           *)
(***************************************************************************)
Authenticate(t) ==
    LET r == req[t] IN
    /\ r.pc = "auth"
    /\ dbUnchanged
    /\ UNCHANGED unit
    /\ IF r.cred = InvalidToken
       THEN \* decode_access_token raises JWTError before any query
            /\ req' = [req EXCEPT ![t] = Respond(r, 401, None, {})]
            /\ UNCHANGED <<current_user_roles, lastQuery>>
       ELSE
       LET q == DbExecute(Statement("User", {r.cred} \cap DOMAIN users, FALSE),
                          current_user_roles[t], role_configuration_access,
                          r.hasSet)
           \* role_names = [role.name for role in user.roles]
           role_names == user_roles[r.cred]
           guard == role_checker(role_names, GuardOf(r.endpoint))
       IN
       /\ lastQuery' = [lastQuery EXCEPT ![t] = q]
       /\ IF q.raised
          THEN /\ req' = [req EXCEPT ![t] = Respond(r, 500, None, {})]
               /\ UNCHANGED current_user_roles
          ELSE IF q.rows = {} \/ ~users[r.cred].is_active
          THEN \* no such user, or an inactive one
               /\ req' = [req EXCEPT ![t] = Respond(r, 401, None, {})]
               /\ UNCHANGED current_user_roles
          ELSE
          /\ current_user_roles' =
                IF UsesContext(r.endpoint)
                THEN ContextSet(current_user_roles, t, role_names)
                ELSE current_user_roles
          /\ req' = [req EXCEPT ![t] =
                IF Guarded(r.endpoint) /\ guard.status = 403
                THEN [Respond(r, 403, None, {}) EXCEPT !.roles = role_names]
                ELSE [r EXCEPT !.pc = "handler", !.roles = role_names,
                               !.hasSet = UsesContext(r.endpoint)]]

(***************************************************************************)
(* GET /chat/configurations                                                *)
(***************************************************************************)
list_configurations(t) ==
    LET r == req[t]
        where == {c \in DOMAIN configurations :
                    /\ configurations[c].is_active
                    /\ r.env # None => configurations[c].environment = r.env}
        q == DbExecute(Statement("Configuration", where, FALSE),
                       current_user_roles[t], role_configuration_access,
                       r.hasSet)
    IN
    /\ r.pc = "handler"
    /\ r.endpoint = "list_configurations"
    /\ lastQuery' = [lastQuery EXCEPT ![t] = q]
    /\ req' = [req EXCEPT ![t] =
                 Respond(r, IF q.raised THEN 500 ELSE 200, None, q.rows)]
    /\ dbUnchanged
    /\ UNCHANGED <<current_user_roles, unit>>

(***************************************************************************)
(* GET /admin/configurations                                               *)
(***************************************************************************)
\* Variant: the statement restricted to active configurations.
list_all_configurations_active ==
    {c \in DOMAIN configurations : configurations[c].is_active}

\* select(Configuration).options(selectinload(Configuration.domain)): no
\* WHERE clause.
list_all_configurations_where == DOMAIN configurations

list_all_configurations(t) ==
    LET r == req[t]
        q == DbExecute(Statement("Configuration",
                                 list_all_configurations_where, FALSE),
                       current_user_roles[t], role_configuration_access,
                       r.hasSet)
    IN
    /\ r.pc = "handler"
    /\ r.endpoint = "list_all_configurations"
    /\ lastQuery' = [lastQuery EXCEPT ![t] = q]
    /\ req' = [req EXCEPT ![t] =
                 Respond(r, IF q.raised THEN 500 ELSE 200, None, q.rows)]
    /\ dbUnchanged
    /\ UNCHANGED <<current_user_roles, unit>>

(***************************************************************************)
(* POST /chat/messages/{message_id}/feedback                               *)
(***************************************************************************)
\* rating_value = "up" if request.rating >= 4 else "down"
rating_value(rating) == IF rating >= 4 THEN "up" ELSE "down"

\* The strings an int field of a response schema accepts: the numerals.
Numerals == {"0", "1", "2", "3", "4", "5"}

\* FeedbackResponse declares rating: int; feedback.rating is the string
\* column of the Feedback row.
FeedbackResponseValidates(row) == row.rating \in Numerals

\* The whole handler: the message by id (404), its conversation (403 when
\* it has no row or is another user's), the Feedback row built from the
\* conversation, domain_id and environment taken from the conversation's
\* configuration when the select returns it, db.add, commit, refresh, and
\* then the response schema built from the refreshed row.
submit_message_feedback(t) ==
    LET r == req[t]
        qmsg == DbExecute(Statement("Message",
                                    {r.message_id} \cap DOMAIN messages, FALSE),
                          current_user_roles[t], role_configuration_access,
                          r.hasSet)
        conversation_id ==
            IF r.message_id \in DOMAIN messages
            THEN messages[r.message_id].conversation_id ELSE 0
        qconv == DbExecute(Statement("Conversation",
                                     {conversation_id} \cap DOMAIN conversations,
                                     FALSE),
                           current_user_roles[t], role_configuration_access,
                           r.hasSet)
        conversation == conversations[conversation_id]
        qcfg == DbExecute(Statement("Configuration",
                                    {conversation.configuration_id}
                                       \cap DOMAIN configurations, FALSE),
                          current_user_roles[t], role_configuration_access,
                          r.hasSet)
        config == IF conversation.configuration_id \in qcfg.rows
                  THEN configurations[conversation.configuration_id]
                  ELSE [domain_id |-> None, environment |-> None]
        row == [message_id |-> r.message_id, user_id |-> r.cred,
                conversation_id |-> conversation_id,
                rating |-> rating_value(r.rating),
                service_type |-> conversation.service_type,
                configuration_id |-> conversation.configuration_id,
                domain_id |-> config.domain_id,
                environment |-> config.environment]
        last == IF conversation.configuration_id = None THEN qconv ELSE qcfg
        saved == [r EXCEPT !.committed = @ \cup {<<"Feedback", Len(feedback) + 1>>},
                           !.rows = last.rows]
    IN
    /\ r.pc = "handler"
    /\ r.endpoint = "submit_message_feedback"
    /\ Len(feedback) < MaxFeedback
    /\ UNCHANGED <<users, roles_table, user_roles, domains, configurations,
                   role_configuration_access, conversations, messages>>
    /\ UNCHANGED <<current_user_roles, unit>>
    /\ IF qmsg.raised
       THEN /\ lastQuery' = [lastQuery EXCEPT ![t] = qmsg]
            /\ req' = [req EXCEPT ![t] = Respond(r, 500, None, {})]
            /\ UNCHANGED feedback
       ELSE IF qmsg.rows = {}
       THEN /\ lastQuery' = [lastQuery EXCEPT ![t] = qmsg]
            /\ req' = [req EXCEPT ![t] =
                         RespondStatus(r, 404, "Message not found")]
            /\ UNCHANGED feedback
       ELSE IF qconv.raised
       THEN /\ lastQuery' = [lastQuery EXCEPT ![t] = qconv]
            /\ req' = [req EXCEPT ![t] = Respond(r, 500, None, {})]
            /\ UNCHANGED feedback
       ELSE IF qconv.rows = {} \/ conversation.user_id # r.cred
       THEN /\ lastQuery' = [lastQuery EXCEPT ![t] = qconv]
            /\ req' = [req EXCEPT ![t] =
                         RespondStatus(r, 403, "Access denied")]
            /\ UNCHANGED feedback
       ELSE IF last.raised
       THEN /\ lastQuery' = [lastQuery EXCEPT ![t] = last]
            /\ req' = [req EXCEPT ![t] = Respond(r, 500, None, {})]
            /\ UNCHANGED feedback
       ELSE /\ lastQuery' = [lastQuery EXCEPT ![t] = last]
            /\ feedback' = Append(feedback, row)
            /\ req' = [req EXCEPT ![t] =
                         IF FeedbackResponseValidates(row)
                         THEN Respond(saved, 200, "feedback", last.rows)
                         ELSE Raise(saved, "ValidationError")]

(***************************************************************************)
(* POST /chat/askatt and POST /chat/askdocs                                *)
(***************************************************************************)
IsChat(e) == e \in {"chat_askatt", "chat_askdocs"}

\* Variant: no body is rejected for its configuration_id.
configuration_id_required_Never(e, cfg) == FALSE

\* chat_askdocs raises 422 for a body without configuration_id.
configuration_id_required(e, cfg) == e = "chat_askdocs" /\ cfg = None

\* The endpoint body: askdocs rejects a missing configuration_id, then
\* both return the StreamingResponse whose generator runs next.
chat_endpoint(t) ==
    LET r == req[t] IN
    /\ r.pc = "handler"
    /\ IsChat(r.endpoint)
    /\ req' = [req EXCEPT ![t] =
                 IF configuration_id_required(r.endpoint, r.cfg)
                 THEN Respond(r, 422, None, {})
                 ELSE [r EXCEPT !.status = 200,
                                !.pc = IF r.endpoint = "chat_askdocs"
                                       THEN "cfg_check" ELSE "conv"]]
    /\ dbUnchanged
    /\ UNCHANGED <<current_user_roles, lastQuery, unit>>

\* chat_askdocs.stream_response: verify the configuration is visible.
stream_verify_configuration(t) ==
    LET r == req[t]
        q == DbExecute(Statement("Configuration",
                                 {r.cfg} \cap DOMAIN configurations, FALSE),
                       current_user_roles[t], role_configuration_access,
                       r.hasSet)
    IN
    /\ r.pc = "cfg_check"
    /\ lastQuery' = [lastQuery EXCEPT ![t] = q]
    /\ req' = [req EXCEPT ![t] =
                 IF q.rows = {}
                 THEN RespondError(r, "Configuration not found or access denied")
                 ELSE [r EXCEPT !.pc = "conv", !.rows = q.rows]]
    /\ dbUnchanged
    /\ UNCHANGED <<current_user_roles, unit>>

\* uuid4 of a new conversation row: the next number no row has.
NewConversationId ==
    CHOOSE k \in 1..MaxConversations :
        /\ k \notin DOMAIN conversations
        /\ \A j \in 1..MaxConversations :
              j \notin DOMAIN conversations => k <= j

\* Variant: get_conversation without the permission check.
get_conversation_NoOwnerCheck(rows, user_id) ==
    IF rows = {} THEN "ResourceNotFoundError" ELSE None

\* get_conversation on the rows the lookup by id returned: the exception
\* it raises, or None when it returns the conversation.
get_conversation(rows, user_id) ==
    IF rows = {} THEN "ResourceNotFoundError"
    ELSE LET k == CHOOSE k \in rows : TRUE IN
         IF conversations[k].user_id # user_id
         THEN "PermissionDeniedError"
         ELSE None

\* str(e) of the two exceptions of get_conversation.
get_conversation_detail(exception) ==
    IF exception = "ResourceNotFoundError"
    THEN "Conversation not found"
    ELSE "You don't have access to this conversation"

\* stream_response, with a conversation_id: get_conversation raises when no
\* row has the id or when the row is another user's, and the stream ends
\* with one error event; chat_askdocs also ends it when the conversation
\* is on another configuration.
stream_get_conversation(t) ==
    LET r == req[t]
        q == DbExecute(Statement("Conversation",
                                 {r.conv} \cap DOMAIN conversations, FALSE),
                       current_user_roles[t], role_configuration_access,
                       r.hasSet)
    IN
    /\ r.pc = "conv"
    /\ r.conv # 0
    /\ lastQuery' = [lastQuery EXCEPT ![t] = q]
    /\ req' = [req EXCEPT ![t] =
                 IF get_conversation(q.rows, r.cred) # None
                 THEN RespondError(r, get_conversation_detail(
                                         get_conversation(q.rows, r.cred)))
                 ELSE IF /\ r.endpoint = "chat_askdocs"
                         /\ conversations[r.conv].configuration_id # r.cfg
                 THEN RespondError(r, "Conversation configuration mismatch")
                 ELSE [r EXCEPT !.pc = "add"]]
    /\ dbUnchanged
    /\ UNCHANGED <<current_user_roles, unit>>

\* stream_response, without a conversation_id: create_conversation adds
\* the row and commits it, refreshes it (a column load), and the
\* conversation_id event is sent.
stream_create_conversation(t) ==
    LET r == req[t]
        k == NewConversationId
        row == [user_id |-> r.cred,
                service_type |-> IF r.endpoint = "chat_askdocs"
                                 THEN "askdocs" ELSE "askatt",
                configuration_id |-> r.cfg]
    IN
    /\ r.pc = "conv"
    /\ r.conv = 0
    /\ DOMAIN conversations # 1..MaxConversations
    /\ conversations' =
         [j \in DOMAIN conversations \cup {k} |->
             IF j = k THEN row ELSE conversations[j]]
    /\ lastQuery' = [lastQuery EXCEPT ![t] =
                       DbExecute(Statement("Conversation", {k}, TRUE),
                                 current_user_roles[t],
                                 role_configuration_access, r.hasSet)]
    /\ req' = [req EXCEPT ![t] =
                 [r EXCEPT !.pc = "add", !.conv = k,
                           !.event = "conversation_id",
                           !.committed = @ \cup {<<"Conversation", k>>}]]
    /\ UNCHANGED <<feedback, users, roles_table, user_roles, domains, configurations,
                   role_configuration_access, messages>>
    /\ UNCHANGED <<current_user_roles, unit>>

\* DELETE /chat/conversations/{conversation_id}: get_conversation, then
\* the conversation's messages and the conversation are deleted and the
\* deletion is committed; the two exceptions become 404 and 403.
delete_conversation_endpoint(t) ==
    LET r == req[t]
        q == DbExecute(Statement("Conversation",
                                 {r.conv} \cap DOMAIN conversations, FALSE),
                       current_user_roles[t], role_configuration_access,
                       r.hasSet)
        exception == get_conversation(q.rows, r.cred)
    IN
    /\ r.pc = "handler"
    /\ r.endpoint = "delete_conversation_endpoint"
    /\ lastQuery' = [lastQuery EXCEPT ![t] = q]
    /\ UNCHANGED <<feedback, users, roles_table, user_roles, domains, configurations,
                   role_configuration_access>>
    /\ UNCHANGED <<current_user_roles, unit>>
    /\ IF exception # None
       THEN /\ req' = [req EXCEPT ![t] =
                         RespondStatus(r,
                            IF exception = "ResourceNotFoundError"
                            THEN 404 ELSE 403,
                            get_conversation_detail(exception))]
            /\ UNCHANGED <<conversations, messages>>
       ELSE /\ messages' =
                 SelectSeq(messages,
                           LAMBDA m : m.conversation_id # r.conv)
            /\ conversations' =
                 [k \in DOMAIN conversations \ {r.conv} |-> conversations[k]]
            /\ req' = [req EXCEPT ![t] =
                         [Respond(r, 204, None, {}) EXCEPT
                             !.committed = @ \cup {<<"Conversation", r.conv>>}]]

\* The attributes of the mapped class Message.
MessageAttributes ==
    {"id", "conversation_id", "role", "content", "token_count", "metadata_",
     "created_at", "conversation"}

\* The keywords add_message passes to Message.
add_message_keywords ==
    {"conversation_id", "role", "content", "token_usage", "sources"}

\* The constructor of a mapped class of Base (DeclarativeBase) sets each
\* keyword as an attribute and raises TypeError for a keyword that is no
\* attribute of the class.
ConstructorAccepts(attributes, keywords) == keywords \subseteq attributes

\* stream_response: add_message for the user message.  Message is
\* constructed first, with token_usage and sources among the keywords:
\* the TypeError the constructor raises ends the request before the
\* message is added, so the steps that follow in stream_response (the
\* title, the history, the provider stream, the assistant message) are
\* not reached.
stream_add_user_message(t) ==
    LET r == req[t]
        q == DbExecute(Statement("Conversation",
                                 {r.conv} \cap DOMAIN conversations, FALSE),
                       current_user_roles[t], role_configuration_access,
                       r.hasSet)
    IN
    /\ r.pc = "add"
    /\ UNCHANGED <<feedback, users, roles_table, user_roles, domains, configurations,
                   role_configuration_access, conversations>>
    /\ UNCHANGED <<current_user_roles, unit>>
    /\ IF ~ConstructorAccepts(MessageAttributes, add_message_keywords)
       THEN /\ req' = [req EXCEPT ![t] = Raise(r, "TypeError")]
            /\ UNCHANGED <<messages, lastQuery>>
       ELSE \* db.add, the conversation looked up, commit, refresh
            /\ messages' = Append(messages,
                                  [conversation_id |-> r.conv, role |-> "user"])
            /\ lastQuery' = [lastQuery EXCEPT ![t] = q]
            /\ req' = [req EXCEPT ![t] =
                         [r EXCEPT !.pc = "history",
                                   !.committed =
                                      @ \cup {<<"Message", Len(messages) + 1>>}]]

Next ==
    \E t \in Tasks :
        \/ StartRequest(t)
        \/ Authenticate(t)
        \/ list_configurations(t)
        \/ list_all_configurations(t)
        \/ submit_message_feedback(t)
        \/ chat_endpoint(t)
        \/ stream_verify_configuration(t)
        \/ stream_get_conversation(t)
        \/ stream_add_user_message(t)

Spec == Init /\ [][Next]_vars


(***************************************************************************)
(* Component-level calls on the context and the rewriter: set called any   *)
(* number of times in one request, and the Configuration statements the    *)
(* endpoints issue, over every grant table.                                *)
(***************************************************************************)
\* Most calls of set made in one request.
MaxSets == 2

InitContext ==
    /\ user_roles = [u \in Users |-> {}]
    /\ role_configuration_access \in [Configurations -> SUBSET RoleNames]
    /\ configurations \in
         {[c \in Configurations |->
             SeedConfiguration(c, IF c = "c1" THEN TRUE ELSE a)] :
          a \in BOOLEAN}
    /\ SeedTables
    /\ current_user_roles = [t \in Tasks |-> Unset]
    /\ req = [t \in Tasks |-> IdleReq]
    /\ lastQuery = [t \in Tasks |-> NoQuery]
    /\ unit = NoUnit

\* current_user_roles.set(role_names), as in get_current_user_with_context.
set_roles(v) ==
    /\ Len(unit.sets) < MaxSets
    /\ current_user_roles' = ContextSet(current_user_roles, UnitTask, v)
    /\ unit' = [unit EXCEPT !.sets = Append(@, v),
                             !.of = None, !.load = NoQuery]
    /\ dbUnchanged
    /\ UNCHANGED <<req, lastQuery>>

\* The WHERE clauses of the Configuration statements of the endpoints:
\* list_configurations (active, optionally one environment), the lookups by
\* id of chat_askdocs, stream_askdocs_chat and submit_message_feedback, and
\* list_all_configurations.
ConfigurationWheres ==
    {{c \in DOMAIN configurations :
        /\ configurations[c].is_active
        /\ env # None => configurations[c].environment = env} :
     env \in Environments \cup {None}}
    \cup {{c} : c \in DOMAIN configurations}
    \cup {DOMAIN configurations}

configuration_query(where) ==
    /\ lastQuery' = [lastQuery EXCEPT ![UnitTask] =
                       DbExecute(Statement("Configuration", where, FALSE),
                                 current_user_roles[UnitTask],
                                 role_configuration_access,
                                 unit.sets # <<>>)]
    /\ unit' = [unit EXCEPT !.qAt = Len(unit.sets),
                             !.of = None, !.load = NoQuery]
    /\ dbUnchanged
    /\ UNCHANGED <<current_user_roles, req>>

\* Configuration.roles and Configuration.domain are lazy="selectin": for a
\* row a Configuration query returned, the relationship is loaded by a
\* statement of its own, a relationship load the listener is called for.
relationship_load(c, relationship) ==
    LET stmt == IF relationship = "roles"
                THEN Statement("Role", role_configuration_access[c], TRUE)
                ELSE Statement("Domain", {configurations[c].domain_id}, TRUE)
    IN
    /\ lastQuery[UnitTask].entity = "Configuration"
    /\ c \in lastQuery[UnitTask].rows
    /\ unit' = [unit EXCEPT
                  !.of = c,
                  !.load = DbExecute(stmt, current_user_roles[UnitTask],
                                     role_configuration_access,
                                     unit.sets # <<>>)]
    /\ dbUnchanged
    /\ UNCHANGED <<current_user_roles, req, lastQuery>>

NextContext ==
    \/ \E v \in SUBSET RoleNames : set_roles(v)
    \/ \E w \in ConfigurationWheres : configuration_query(w)
    \/ \E c \in Configurations, relationship \in {"roles", "domain"} :
          relationship_load(c, relationship)

SpecContext == InitContext /\ [][NextContext]_vars

(***************************************************************************)
(* The guard alone: role_checker of require_role, for any required tuple.  *)
(***************************************************************************)
RequiredTuples == UNION {[1..n -> RoleNames] : n \in 0..MaxRequired}

InitGuard ==
    /\ user_roles \in [Users -> SUBSET RoleNames]
    /\ role_configuration_access = SeedGrants
    /\ configurations =
         [c \in Configurations |-> SeedConfiguration(c, TRUE)]
    /\ SeedTables
    /\ current_user_roles = [t \in Tasks |-> Unset]
    /\ req = [t \in Tasks |-> IdleReq]
    /\ lastQuery = [t \in Tasks |-> NoQuery]
    /\ unit = NoUnit

\* user_roles = {role.name for role in current_user.roles}, then the check.
require_role(u, required) ==
    /\ unit' = [unit EXCEPT !.roles = user_roles[u],
                            !.required = required,
                            !.outcome = role_checker(user_roles[u], required)]
    /\ dbUnchanged
    /\ UNCHANGED <<current_user_roles, req, lastQuery>>

NextGuard == \E u \in Users, required \in RequiredTuples : require_role(u, required)

SpecGuard == InitGuard /\ [][NextGuard]_vars


(***************************************************************************)
(* The /admin router: every route depends on get_current_user, then on     *)
(* require_admin, then on get_db; requests are taken one after the other.  *)
(***************************************************************************)
\* An /admin request: target is the user_id or domain_id of its body,
\* role_ids its role_ids, name its name, domain_key or config_key.
NewAdmin(e, cred, target, role_ids, name) ==
    [NewReq(e, cred, None, None, 0) EXCEPT
        !.target = target, !.role_ids = role_ids, !.name = name]

RoleIdLists == {<<>>, <<"ADMIN">>, <<"OIS">>, <<"OIS", "OIS">>, <<"NOROLE">>}

AdminInputs ==
    {NewAdmin(e, cred, None, <<>>, None) :
        e \in {"list_users", "list_roles", "list_domains",
               "list_all_configurations", "get_usage_statistics",
               "fetch_configurations_for_domain"},
        cred \in Users \cup {InvalidToken}}
    \cup
    {NewAdmin("assign_user_roles", cred, target, ids, None) :
        cred \in Users \cup {InvalidToken},
        target \in UserIds,
        ids \in RoleIdLists}
    \cup
    {NewAdmin("create_role", cred, None, <<>>, name) :
        cred \in Users \cup {InvalidToken},
        name \in {"OIS", "AUDITOR"}}
    \cup
    {NewAdmin("create_domain", cred, None, <<>>, name) :
        cred \in Users \cup {InvalidToken},
        name \in {"dk1", "dk2"}}
    \cup
    {NewAdmin("create_configuration", cred, target, ids, name) :
        cred \in Users \cup {InvalidToken},
        target \in DomainIds,
        ids \in {<<>>, <<"OIS">>, <<"NOROLE">>},
        name \in {"k1", "k3"}}
    \cup
    {NewReq("list_configurations", cred, None, None, 0) :
        cred \in Users \cup {InvalidToken}}

\* The slots /admin requests are taken in.
AdminTasks == {UnitTask}

\* The seeded grants and configurations, the second configuration active
\* or not; an administrator and a user who is none.
InitAdmin ==
    /\ user_roles \in
         {[u \in Users |-> IF u = "u1" THEN a ELSE b] :
            a \in {{"ADMIN"}, {"ADMIN", "OIS"}}, b \in {{}, {"MANAGER"}}}
    /\ role_configuration_access = SeedGrants
    /\ configurations \in
         {[c \in Configurations |->
             SeedConfiguration(c, IF c = "c1" THEN TRUE ELSE a)] :
          a \in BOOLEAN}
    /\ users = SeedUsers
    /\ roles_table = RoleNames
    /\ domains = SeedDomains
    /\ conversations = SeedConversations
    /\ messages = <<>>
    /\ feedback = <<>>
    /\ current_user_roles = [t \in Tasks |-> Unset]
    /\ req = [t \in Tasks |-> IdleReq]
    /\ lastQuery = [t \in Tasks |-> NoQuery]
    /\ unit = NoUnit

StartAdminRequest(t) == Start(t, AdminInputs)

\* A statement of an /admin handler, executed in the request's session.
AdminExecute(t, entity, where) ==
    DbExecute(Statement(entity, where, FALSE), current_user_roles[t],
              role_configuration_access, req[t].hasSet)

ListRows(t, e, entity, where) ==
    LET r == req[t]
        q == AdminExecute(t, entity, where)
    IN
    /\ r.pc = "handler"
    /\ r.endpoint = e
    /\ lastQuery' = [lastQuery EXCEPT ![t] = q]
    /\ req' = [req EXCEPT ![t] =
                 Respond(r, IF q.raised THEN 500 ELSE 200, None, q.rows)]
    /\ dbUnchanged
    /\ UNCHANGED <<current_user_roles, unit>>

\* GET /admin/users, /admin/roles, /admin/domains: every row of the table.
list_users(t) == ListRows(t, "list_users", "User", DOMAIN users)

list_roles(t) == ListRows(t, "list_roles", "Role", roles_table)

list_domains(t) == ListRows(t, "list_domains", "Domain", DOMAIN domains)

\* PUT /admin/users/{user_id}/roles: the user's roles are replaced by the
\* rows the role_ids select, when the user exists and as many rows were
\* found as ids were given.
assign_user_roles(t) ==
    LET r == req[t]
        quser == AdminExecute(t, "User", {r.target} \cap DOMAIN users)
        qroles == AdminExecute(t, "Role", Range(r.role_ids) \cap roles_table)
    IN
    /\ r.pc = "handler"
    /\ r.endpoint = "assign_user_roles"
    /\ UNCHANGED <<current_user_roles, unit>>
    /\ IF quser.rows = {}
       THEN /\ lastQuery' = [lastQuery EXCEPT ![t] = quser]
            /\ req' = [req EXCEPT ![t] = RespondStatus(r, 404, "User not found")]
            /\ dbUnchanged
       ELSE IF Cardinality(qroles.rows) # Len(r.role_ids)
       THEN /\ lastQuery' = [lastQuery EXCEPT ![t] = qroles]
            /\ req' = [req EXCEPT ![t] =
                         RespondStatus(r, 404, "Some roles not found")]
            /\ dbUnchanged
       ELSE \* user.roles = roles, commit, refresh
            /\ user_roles' = [user_roles EXCEPT ![r.target] = qroles.rows]
            /\ lastQuery' = [lastQuery EXCEPT ![t] =
                               DbExecute(Statement("User", {r.target}, TRUE),
                                         current_user_roles[t],
                                         role_configuration_access, r.hasSet)]
            /\ req' = [req EXCEPT ![t] =
                         [Respond(r, 200, None, qroles.rows) EXCEPT
                             !.committed = @ \cup {<<"user_roles", r.target>>}]]
            /\ UNCHANGED <<feedback, users, roles_table, domains, configurations,
                           role_configuration_access, conversations, messages>>

\* The columns of roles that are NOT NULL and have no default.
RoleRequired == {"name", "display_name"}

\* The keywords Role is constructed with by create_role.
create_role_keywords == {"name", "description"}

\* The INSERT of a row is rejected (IntegrityError) when a NOT NULL column
\* without a default was given no value.
InsertAccepts(required, keywords) == required \subseteq keywords

\* POST /admin/roles: 422 for a name some role has; else the role is added
\* and committed.  Role is constructed without display_name, so the INSERT
\* the commit flushes violates NOT NULL and the commit raises.
create_role(t) ==
    LET r == req[t]
        q == AdminExecute(t, "Role", {r.name} \cap roles_table)
    IN
    /\ r.pc = "handler"
    /\ r.endpoint = "create_role"
    /\ lastQuery' = [lastQuery EXCEPT ![t] = q]
    /\ UNCHANGED <<current_user_roles, unit>>
    /\ UNCHANGED <<feedback, users, user_roles, domains, configurations,
                   role_configuration_access, conversations, messages>>
    /\ IF q.rows # {}
       THEN /\ req' = [req EXCEPT ![t] =
                         RespondStatus(r, 422, "Role already exists")]
            /\ UNCHANGED roles_table
       ELSE IF ~InsertAccepts(RoleRequired, create_role_keywords)
       THEN /\ req' = [req EXCEPT ![t] = Raise(r, "IntegrityError")]
            /\ UNCHANGED roles_table
       ELSE /\ roles_table' = roles_table \cup {r.name}
            /\ req' = [req EXCEPT ![t] =
                         [Respond(r, 201, None, {r.name}) EXCEPT
                             !.committed = @ \cup {<<"roles", r.name>>}]]

\* POST /admin/domains: 422 for a domain_key some domain has; else the
\* domain is added and committed.
create_domain(t) ==
    LET r == req[t]
        q == AdminExecute(t, "Domain",
                          {d \in DOMAIN domains : domains[d].domain_key = r.name})
        d == CHOOSE x \in DomainIds : x \notin DOMAIN domains
    IN
    /\ r.pc = "handler"
    /\ r.endpoint = "create_domain"
    /\ UNCHANGED <<current_user_roles, unit>>
    /\ UNCHANGED <<feedback, users, roles_table, user_roles, configurations,
                   role_configuration_access, conversations, messages>>
    /\ IF q.rows # {}
       THEN /\ lastQuery' = [lastQuery EXCEPT ![t] = q]
            /\ req' = [req EXCEPT ![t] =
                         RespondStatus(r, 422, "Domain key already exists")]
            /\ UNCHANGED domains
       ELSE /\ DOMAIN domains # DomainIds
            /\ domains' = [x \in DOMAIN domains \cup {d} |->
                             IF x = d THEN [domain_key |-> r.name]
                             ELSE domains[x]]
            /\ lastQuery' = [lastQuery EXCEPT ![t] =
                               DbExecute(Statement("Domain", {d}, TRUE),
                                         current_user_roles[t],
                                         role_configuration_access, r.hasSet)]
            /\ req' = [req EXCEPT ![t] =
                         [Respond(r, 201, None, {d}) EXCEPT
                             !.committed = @ \cup {<<"domains", d>>}]]

\* POST /admin/configurations: 404 when the domain or one of the roles is
\* not found, 422 when the domain has a configuration with the config_key;
\* else the configuration and its grants are added and committed, and the
\* row is selected again for the response.
create_configuration(t) ==
    LET r == req[t]
        qdomain == AdminExecute(t, "Domain", {r.target} \cap DOMAIN domains)
        qexists == AdminExecute(t, "Configuration",
                     {c \in DOMAIN configurations :
                        /\ configurations[c].domain_id = r.target
                        /\ configurations[c].config_key = r.name})
        qroles == AdminExecute(t, "Role", Range(r.role_ids) \cap roles_table)
    IN
    /\ r.pc = "handler"
    /\ r.endpoint = "create_configuration"
    /\ UNCHANGED <<current_user_roles, unit>>
    /\ dbUnchanged
    /\ IF qdomain.rows = {}
       THEN /\ lastQuery' = [lastQuery EXCEPT ![t] = qdomain]
            /\ req' = [req EXCEPT ![t] =
                         RespondStatus(r, 404, "Domain not found")]
       ELSE IF qexists.rows # {}
       THEN /\ lastQuery' = [lastQuery EXCEPT ![t] = qexists]
            /\ req' = [req EXCEPT ![t] =
                         RespondStatus(r, 422, "Configuration already exists")]
       ELSE IF Cardinality(qroles.rows) # Len(r.role_ids)
       THEN /\ lastQuery' = [lastQuery EXCEPT ![t] = qroles]
            /\ req' = [req EXCEPT ![t] =
                         RespondStatus(r, 404, "Some roles not found")]
       ELSE /\ lastQuery' = [lastQuery EXCEPT ![t] = qroles]
            /\ req' = [req EXCEPT ![t] = [r EXCEPT !.pc = "create"]]

\* create_configuration, after the three lookups: the configuration is
\* added with its grants and committed, then loaded again for the
\* response.  No constraint of the table involves config_key.
create_configuration_commit(t) ==
    LET r == req[t]
        id == CHOOSE x \in ConfigurationIds : x \notin DOMAIN configurations
        row == [domain_id |-> r.target, config_key |-> r.name,
                is_active |-> TRUE, environment |-> "production"]
        grants == [c \in DOMAIN configurations \cup {id} |->
                     IF c = id THEN Range(r.role_ids)
                     ELSE role_configuration_access[c]]
    IN
    /\ r.pc = "create"
    /\ DOMAIN configurations # ConfigurationIds
    /\ UNCHANGED <<current_user_roles, unit>>
    /\ UNCHANGED <<feedback, users, roles_table, user_roles, domains, conversations,
                   messages>>
    /\ configurations' =
         [c \in DOMAIN configurations \cup {id} |->
             IF c = id THEN row ELSE configurations[c]]
    /\ role_configuration_access' = grants
    /\ lastQuery' = [lastQuery EXCEPT ![t] =
                       DbExecute(Statement("Configuration", {id}, FALSE),
                                 current_user_roles[t], grants, r.hasSet)]
    /\ req' = [req EXCEPT ![t] =
                 [Respond(r, 201, None, {id}) EXCEPT
                     !.committed = @ \cup {<<"configurations", id>>}]]

\* GET /admin/stats/usage: the conversations and the messages are counted,
\* then the statement summing Message.token_usage is built.  Message has
\* no such attribute: AttributeError.
get_usage_statistics(t) ==
    LET r == req[t]
        q == AdminExecute(t, "Message", DOMAIN messages)
    IN
    /\ r.pc = "handler"
    /\ r.endpoint = "get_usage_statistics"
    /\ lastQuery' = [lastQuery EXCEPT ![t] = q]
    /\ req' = [req EXCEPT ![t] =
                 IF "token_usage" \in MessageAttributes
                 THEN Respond(r, 200, None, {})
                 ELSE Raise(r, "AttributeError")]
    /\ dbUnchanged
    /\ UNCHANGED <<current_user_roles, unit>>

\* POST /admin/configurations/fetch-by-domain: the configurations of a
\* domain are fetched from the external API (or its mock); any failure of
\* the fetch is answered 500.  No statement is executed.
fetch_configurations_for_domain(t) ==
    LET r == req[t] IN
    /\ r.pc = "handler"
    /\ r.endpoint = "fetch_configurations_for_domain"
    /\ \E status \in {200, 500} :
          req' = [req EXCEPT ![t] =
                    [Respond(r, status, None, {}) EXCEPT !.fetched = TRUE]]
    /\ dbUnchanged
    /\ UNCHANGED <<current_user_roles, lastQuery, unit>>

NextAdmin ==
    \E t \in AdminTasks :
        \/ StartAdminRequest(t)
        \/ Authenticate(t)
        \/ list_configurations(t)
        \/ list_users(t)
        \/ assign_user_roles(t)
        \/ list_roles(t)
        \/ create_role(t)
        \/ list_domains(t)
        \/ create_domain(t)
        \/ list_all_configurations(t)
        \/ create_configuration(t)
        \/ create_configuration_commit(t)
        \/ get_usage_statistics(t)
        \/ fetch_configurations_for_domain(t)

SpecAdmin == InitAdmin /\ [][NextAdmin]_vars

(***************************************************************************)
(* create_configuration by two administrators at once, on a database with  *)
(* one configuration.                                                      *)
(***************************************************************************)
CreateInputs ==
    {NewAdmin("create_configuration", cred, target, ids, name) :
        cred \in Users,
        target \in DomainIds,
        ids \in {<<>>, <<"OIS">>, <<"NOROLE">>},
        name \in {"k1", "k3"}}

InitCreate ==
    /\ user_roles = [u \in Users |-> {"ADMIN"}]
    /\ configurations = [c \in {"c1"} |-> SeedConfiguration(c, TRUE)]
    /\ role_configuration_access = [c \in {"c1"} |-> SeedGrants[c]]
    /\ users = SeedUsers
    /\ roles_table = AllRoleNames
    /\ domains = SeedDomains
    /\ conversations = <<>>
    /\ messages = <<>>
    /\ feedback = <<>>
    /\ current_user_roles = [t \in Tasks |-> Unset]
    /\ req = [t \in Tasks |-> IdleReq]
    /\ lastQuery = [t \in Tasks |-> NoQuery]
    /\ unit = NoUnit

StartCreateRequest(t) == Start(t, CreateInputs)

NextCreate ==
    \E t \in Tasks :
        \/ StartCreateRequest(t)
        \/ Authenticate(t)
        \/ create_configuration(t)
        \/ create_configuration_commit(t)

SpecCreate == InitCreate /\ [][NextCreate]_vars

(***************************************************************************)
(* The feedback endpoint alone, on a database that holds a message of each *)
(* user's conversation: two requests at once.                              *)
(***************************************************************************)
\* A conversation of each user: u1's on a configuration, u2's on none.
FeedbackConversations ==
    [k \in {1, 2} |->
        IF k = 1 THEN SeedConversations[1]
        ELSE [user_id |-> "u2", service_type |-> "askatt",
              configuration_id |-> None]]

\* One assistant message in each of them.
FeedbackMessages ==
    <<[conversation_id |-> 1, role |-> "assistant"],
      [conversation_id |-> 2, role |-> "assistant"]>>

\* The ratings FeedbackRequest admits: ge=1, le=5.
Ratings == 1..5

\* Each user rates each message and one message id no row has.
FeedbackInputs ==
    {NewFeedback(cred, message_id, rating) :
        cred \in Users,
        message_id \in DOMAIN FeedbackMessages \cup {Len(FeedbackMessages) + 1},
        rating \in Ratings}

InitFeedback ==
    /\ user_roles = [u \in Users |-> IF u = "u1" THEN {"MANAGER"} ELSE {}]
    /\ role_configuration_access = SeedGrants
    /\ configurations =
         [c \in Configurations |-> SeedConfiguration(c, TRUE)]
    /\ users = SeedUsers
    /\ roles_table = AllRoleNames
    /\ domains = SeedDomains
    /\ conversations = FeedbackConversations
    /\ messages = FeedbackMessages
    /\ feedback = <<>>
    /\ current_user_roles = [t \in Tasks |-> Unset]
    /\ req = [t \in Tasks |-> IdleReq]
    /\ lastQuery = [t \in Tasks |-> NoQuery]
    /\ unit = NoUnit

StartFeedbackRequest(t) == Start(t, FeedbackInputs)

NextFeedback ==
    \E t \in Tasks :
        \/ StartFeedbackRequest(t)
        \/ Authenticate(t)
        \/ submit_message_feedback(t)

SpecFeedback == InitFeedback /\ [][NextFeedback]_vars

(***************************************************************************)
(* The chat endpoints alone, with conversations created: a request body    *)
(* may name a configuration and a conversation no row has.                 *)
(***************************************************************************)
\* The conversation_id of a body: none, a seeded row, or the last id a row
\* can take.
ChatConversationIds == {0, MaxConversations} \cup DOMAIN SeedConversations

ChatInputs ==
    {NewChat("chat_askatt", cred, None, k) :
        cred \in Users, k \in ChatConversationIds}
    \cup
    {NewChat("chat_askdocs", cred, cfg, k) :
        cred \in Users,
        cfg \in ConfigurationIds \cup {None},
        k \in ChatConversationIds}
    \cup
    {NewChat("delete_conversation_endpoint", cred, None, k) :
        cred \in Users, k \in ChatConversationIds \ {0}}

InitChat ==
    /\ user_roles \in
         {[u \in Users |-> IF u = "u1" THEN a ELSE b] :
            a \in {{"MANAGER"}, {"ADMIN", "OIS"}}, b \in {{}, {"OIS"}}}
    /\ role_configuration_access = SeedGrants
    /\ configurations =
         [c \in Configurations |-> SeedConfiguration(c, TRUE)]
    /\ SeedTables
    /\ current_user_roles = [t \in Tasks |-> Unset]
    /\ req = [t \in Tasks |-> IdleReq]
    /\ lastQuery = [t \in Tasks |-> NoQuery]
    /\ unit = NoUnit

StartChatRequest(t) == Start(t, ChatInputs)

\* The requests are served one after the other.
ChatTasks == {UnitTask}

NextChat ==
    \E t \in ChatTasks :
        \/ StartChatRequest(t)
        \/ Authenticate(t)
        \/ chat_endpoint(t)
        \/ stream_verify_configuration(t)
        \/ stream_get_conversation(t)
        \/ stream_create_conversation(t)
        \/ stream_add_user_message(t)
        \/ delete_conversation_endpoint(t)

SpecChat == InitChat /\ [][NextChat]_vars

(***************************************************************************)
(* Signup, login and the profile of the caller.  app/core/security.py is   *)
(* not among the sources: its four functions are modelled by what their    *)
(* callers rely on.                                                        *)
(***************************************************************************)
\* A hash stands for the password it was made from.
get_password_hash(password) == <<"hash", password>>

verify_password(password, password_hash) ==
    password_hash = get_password_hash(password)

\* A token carries the claims and the signature made with the secret key.
create_access_token(data) == <<"signed", data.sub>>

\* The claims of a token with a valid signature; JWTError otherwise.
decode_access_token(token) ==
    IF Len(token) = 2 /\ token[1] = "signed"
    THEN [ok |-> TRUE, sub |-> token[2]]
    ELSE [ok |-> FALSE, sub |-> None]

\* A token no login issued.
ForgedToken == <<"forged", "u1">>

Attids == {"a2", "a3"}
Emails == {"e2", "e3"}
Passwords == {"p1", "p3"}

NewAuthReq(e, attid, email, password) ==
    [IdleReq EXCEPT !.pc = "handler", !.endpoint = e, !.attid = attid,
                    !.email = email, !.password = password]

\* GET /auth/me with a bearer token: one a login returned, or a forged one.
NewProfileReq(token, user) ==
    [IdleReq EXCEPT !.pc = "token", !.endpoint = "get_current_user_profile",
                    !.token = token, !.issuedTo = user]

AuthInputs ==
    {NewAuthReq("signup", a, e, p) :
        a \in Attids, e \in Emails, p \in Passwords}
    \cup
    {NewAuthReq("login", a, None, p) : a \in Attids, p \in Passwords}
    \cup
    {NewProfileReq(req[u].token, req[u].issuedTo) :
        u \in {v \in Tasks : /\ req[v].endpoint = "login"
                              /\ req[v].pc = "done"
                              /\ req[v].status = 200}}
    \cup
    {NewProfileReq(ForgedToken, None)}

\* The database may lack the USER role, and a seeded user may be inactive.
InitAuth ==
    /\ users \in {[SeedUsers EXCEPT !["u2"].is_active = a] : a \in BOOLEAN}
    /\ roles_table \in {AllRoleNames, RoleNames}
    /\ user_roles = [u \in Users |-> IF u = "u1" THEN {"ADMIN"} ELSE {}]
    /\ role_configuration_access = SeedGrants
    /\ configurations =
         [c \in Configurations |-> SeedConfiguration(c, TRUE)]
    /\ domains = SeedDomains
    /\ conversations = SeedConversations
    /\ messages = <<>>
    /\ feedback = <<>>
    /\ current_user_roles = [t \in Tasks |-> Unset]
    /\ req = [t \in Tasks |-> IdleReq]
    /\ lastQuery = [t \in Tasks |-> NoQuery]
    /\ unit = NoUnit

StartAuthRequest(t) == Start(t, AuthInputs)

\* A statement of create_user or authenticate_user, executed in the
\* request's session; the context was never set in these requests.
AuthExecute(t, entity, where) ==
    DbExecute(Statement(entity, where, FALSE), current_user_roles[t],
              role_configuration_access, FALSE)

UsersWithAttid(attid) == {u \in DOMAIN users : users[u].attid = attid}
UsersWithEmail(email) == {u \in DOMAIN users : users[u].email = email}

\* create_user: the attid is looked up first.
signup_check_attid(t) ==
    LET r == req[t]
        q == AuthExecute(t, "User", UsersWithAttid(r.attid))
    IN
    /\ r.pc = "handler"
    /\ r.endpoint = "signup"
    /\ lastQuery' = [lastQuery EXCEPT ![t] = q]
    /\ req' = [req EXCEPT ![t] =
                 IF q.rows # {}
                 THEN RespondStatus(r, 422, "AT&T ID is already registered")
                 ELSE [r EXCEPT !.pc = "email"]]
    /\ dbUnchanged
    /\ UNCHANGED <<current_user_roles, unit>>

\* create_user: then the email.
signup_check_email(t) ==
    LET r == req[t]
        q == AuthExecute(t, "User", UsersWithEmail(r.email))
    IN
    /\ r.pc = "email"
    /\ lastQuery' = [lastQuery EXCEPT ![t] = q]
    /\ req' = [req EXCEPT ![t] =
                 IF q.rows # {}
                 THEN RespondStatus(r, 422, "Email is already registered")
                 ELSE [r EXCEPT !.pc = "role"]]
    /\ dbUnchanged
    /\ UNCHANGED <<current_user_roles, unit>>

\* The keywords create_user passes to Role.
create_user_role_keywords == {"name", "description"}

\* create_user: the USER role is looked up, and when no row has the name
\* a Role is added and flushed: the INSERT leaves display_name NULL, the
\* flush raises IntegrityError, and signup, which catches ValidationError
\* only, lets it through.
signup_get_role(t) ==
    LET r == req[t]
        q == AuthExecute(t, "Role", {"USER"} \cap roles_table)
    IN
    /\ r.pc = "role"
    /\ lastQuery' = [lastQuery EXCEPT ![t] = q]
    /\ req' = [req EXCEPT ![t] =
                 IF q.rows # {}
                    \/ InsertAccepts(RoleRequired, create_user_role_keywords)
                 THEN [r EXCEPT !.pc = "commit",
                                !.role_ids = IF q.rows # {}
                                             THEN <<>> ELSE <<"USER">>]
                 ELSE Raise([r EXCEPT !.status = 0], "IntegrityError")]
    /\ dbUnchanged
    /\ UNCHANGED <<current_user_roles, unit>>

\* uuid4 of a new user row: an id no row has.
NewUserId == CHOOSE u \in UserIds : u \notin DOMAIN users

\* create_user: the user is added with the USER role and committed,
\* together with a role flushed before.  attid and email are unique
\* columns: the INSERT raises IntegrityError when a row committed since
\* the two lookups holds one of them.
signup_commit(t) ==
    LET r == req[t]
        u == NewUserId
        row == [attid |-> r.attid, email |-> r.email,
                password_hash |-> get_password_hash(r.password),
                is_active |-> TRUE]
    IN
    /\ r.pc = "commit"
    /\ UNCHANGED <<feedback, domains, configurations, role_configuration_access,
                   conversations, messages>>
    /\ UNCHANGED <<current_user_roles, lastQuery, unit>>
    /\ IF UsersWithAttid(r.attid) # {} \/ UsersWithEmail(r.email) # {}
       THEN /\ req' = [req EXCEPT ![t] =
                         Raise([r EXCEPT !.status = 0], "IntegrityError")]
            /\ UNCHANGED <<users, user_roles, roles_table>>
       ELSE /\ DOMAIN users # UserIds
            /\ users' = [x \in DOMAIN users \cup {u} |->
                            IF x = u THEN row ELSE users[x]]
            /\ user_roles' = [x \in DOMAIN users \cup {u} |->
                                 IF x = u THEN {"USER"} ELSE user_roles[x]]
            /\ roles_table' = roles_table \cup Range(r.role_ids)
            /\ req' = [req EXCEPT ![t] =
                         [Respond(r, 201, None, {u}) EXCEPT
                             !.roles = {"USER"},
                             !.committed = @ \cup {<<"User", u>>}]]

\* Variant: a user is authenticated whether active or not.
authenticate_user_NoActiveCheck(rows, password) ==
    IF rows = {} THEN None
    ELSE LET user == CHOOSE u \in rows : TRUE IN
         IF ~verify_password(password, users[user].password_hash)
         THEN None
         ELSE user

\* authenticate_user on the rows the lookup by attid returned: the user,
\* or None.
authenticate_user(rows, password) ==
    IF rows = {} THEN None
    ELSE LET user == CHOOSE u \in rows : TRUE IN
         IF ~verify_password(password, users[user].password_hash)
         THEN None
         ELSE IF ~users[user].is_active THEN None
         ELSE user

\* POST /auth/login: login_user answers the token made for the user
\* authenticate_user returned, or raises AuthenticationError, which login
\* turns into 401.
login(t) ==
    LET r == req[t]
        q == AuthExecute(t, "User", UsersWithAttid(r.attid))
        user == authenticate_user(q.rows, r.password)
    IN
    /\ r.pc = "handler"
    /\ r.endpoint = "login"
    /\ lastQuery' = [lastQuery EXCEPT ![t] = q]
    /\ req' = [req EXCEPT ![t] =
                 IF user = None
                 THEN RespondStatus(r, 401, "Invalid AT&T ID or password")
                 ELSE [Respond(r, 200, None, {}) EXCEPT
                          !.token = create_access_token([sub |-> user]),
                          !.issuedTo = user]]
    /\ dbUnchanged
    /\ UNCHANGED <<current_user_roles, unit>>

\* security = HTTPBearer(), with auto_error left on: a request without
\* Authorization header is answered by the scheme itself, before
\* get_current_user runs.  The status is the library's: 403 in the FastAPI
\* releases before 0.122, 401 since; the repository pins no release.
HTTPBearerNotAuthenticated == {401, 403}

\* get_current_user: the token is decoded; a payload without sub is
\* rejected, otherwise the sub is the id the user is looked up by.
decode_token(t) ==
    LET r == req[t]
        payload == decode_access_token(r.token)
    IN
    /\ r.pc = "token"
    /\ IF r.token = <<>>
       THEN \E status \in HTTPBearerNotAuthenticated :
               req' = [req EXCEPT ![t] =
                         RespondStatus(r, status, "Not authenticated")]
       ELSE IF payload.ok /\ payload.sub = None
       THEN req' = [req EXCEPT ![t] =
                      RespondStatus(r, 401, "Invalid token payload")]
       ELSE req' = [req EXCEPT ![t] =
                      [r EXCEPT !.pc = "auth",
                                !.cred = IF payload.ok THEN payload.sub
                                         ELSE InvalidToken]]
    /\ dbUnchanged
    /\ UNCHANGED <<current_user_roles, lastQuery, unit>>

\* GET /auth/me: the profile of the user get_current_user returned.
get_current_user_profile(t) ==
    LET r == req[t] IN
    /\ r.pc = "handler"
    /\ r.endpoint = "get_current_user_profile"
    /\ req' = [req EXCEPT ![t] = Respond(r, 200, None, {r.cred})]
    /\ dbUnchanged
    /\ UNCHANGED <<current_user_roles, lastQuery, unit>>

NextAuth ==
    \E t \in Tasks :
        \/ StartAuthRequest(t)
        \/ signup_check_attid(t)
        \/ signup_check_email(t)
        \/ signup_get_role(t)
        \/ signup_commit(t)
        \/ login(t)
        \/ decode_token(t)
        \/ Authenticate(t)
        \/ get_current_user_profile(t)

SpecAuth == InitAuth /\ [][NextAuth]_vars

(***************************************************************************)
(* Every authenticated endpoint, with every kind of bearer token: none,    *)
(* one that fails validation, one without sub, one of a user no row has,   *)
(* one of an inactive user, and valid ones.                                *)
(***************************************************************************)
CredentialTokens ==
    {<<>>, ForgedToken, <<"signed", None>>}
    \cup {create_access_token([sub |-> u]) : u \in UserIds}

\* The bodies of the requests, each sent with each token.
CredentialInputs ==
    {[r EXCEPT !.pc = "token", !.cred = None, !.token = token] :
        r \in {x \in RequestInputs \cup AdminInputs :
                 /\ x.cred = "u1"
                 /\ x.target \in {None, "u1", "u2", "d1"}
                 /\ x.role_ids \in {<<>>, <<"OIS">>}
                 /\ x.name \in {None, "AUDITOR", "dk2", "k3"}
                 /\ x.message_id \in {0, 1}
                 /\ x.env = None},
        token \in CredentialTokens}
    \cup
    {NewProfileReq(token, None) : token \in CredentialTokens}

\* u1 holds ADMIN; u2 may be inactive.
InitCredentials ==
    /\ users \in {[SeedUsers EXCEPT !["u2"].is_active = a] : a \in BOOLEAN}
    /\ roles_table = AllRoleNames
    /\ user_roles =
         [u \in Users |-> IF u = "u1" THEN {"ADMIN"} ELSE {"MANAGER"}]
    /\ role_configuration_access = SeedGrants
    /\ configurations =
         [c \in Configurations |-> SeedConfiguration(c, TRUE)]
    /\ domains = SeedDomains
    /\ conversations = SeedConversations
    /\ messages = <<>>
    /\ feedback = <<>>
    /\ current_user_roles = [t \in Tasks |-> Unset]
    /\ req = [t \in Tasks |-> IdleReq]
    /\ lastQuery = [t \in Tasks |-> NoQuery]
    /\ unit = NoUnit

StartCredentialRequest(t) == Start(t, CredentialInputs)

\* The requests are served one after the other.
CredentialTasks == {UnitTask}

NextCredentials ==
    \E t \in CredentialTasks :
        \/ StartCredentialRequest(t)
        \/ decode_token(t)
        \/ Authenticate(t)
        \/ get_current_user_profile(t)
        \/ list_configurations(t)
        \/ submit_message_feedback(t)
        \/ chat_endpoint(t)
        \/ stream_verify_configuration(t)
        \/ stream_get_conversation(t)
        \/ stream_add_user_message(t)
        \/ list_users(t)
        \/ assign_user_roles(t)
        \/ list_roles(t)
        \/ create_role(t)
        \/ list_domains(t)
        \/ create_domain(t)
        \/ list_all_configurations(t)
        \/ create_configuration(t)
        \/ create_configuration_commit(t)
        \/ get_usage_statistics(t)
        \/ fetch_configurations_for_domain(t)

SpecCredentials == InitCredentials /\ [][NextCredentials]_vars

(***************************************************************************)
(* Properties                                                              *)
(***************************************************************************)
\* Rows of a selection a role set is granted: the grant set intersects it.
Granted(where, R) ==
    {c \in where : role_configuration_access[c] \cap R # {}}

\* The role set in effect at the last component-level query.
RolesAtQuery == unit.sets[unit.qAt]

\* C1: for a non-empty role set R without ADMIN held in the context, a
\* Configuration query returns, among the rows its own WHERE clause
\* selects, exactly those with at least one granted role named in R.
C1_FilteredIffGranted ==
    LET q == lastQuery[UnitTask] IN
    (/\ q.entity = "Configuration"
     /\ unit.qAt >= 1
     /\ RolesAtQuery # {}
     /\ "ADMIN" \notin RolesAtQuery)
    => /\ q.rows \subseteq q.where
       /\ \A c \in q.where :
            c \in q.rows <=>
              \E r \in role_configuration_access[c] : r \in RolesAtQuery

\* The MANAGER scenario: c1 granted to MANAGER and ADMIN, c2 to OIS only,
\* both selected by the list query, and exactly c1 returned.
C1_Witness ==
    LET q == lastQuery[UnitTask] IN
    /\ unit.qAt >= 1
    /\ RolesAtQuery = {"MANAGER"}
    /\ role_configuration_access["c1"] = {"MANAGER", "ADMIN"}
    /\ role_configuration_access["c2"] = {"OIS"}
    /\ q.entity = "Configuration"
    /\ q.where = Configurations
    /\ q.rows = {"c1"}

\* C2: requests handled concurrently each observe their own role set: once
\* a request has set its roles, the context it reads holds that value at
\* every point, and every read and every filtered Configuration query it
\* made since used that value, whatever the other request set.
C2_Isolation ==
    \A t \in Tasks :
        req[t].hasSet =>
            /\ ContextGet(current_user_roles[t]).val = req[t].roles
            /\ (lastQuery[t].read /\ lastQuery[t].afterSet) =>
                 /\ lastQuery[t].roles = req[t].roles
                 /\ (lastQuery[t].entity = "Configuration"
                     /\ req[t].roles # {} /\ "ADMIN" \notin req[t].roles)
                    => lastQuery[t].rows = Granted(lastQuery[t].where, req[t].roles)

\* Two chat_askdocs requests of users with different roles, both suspended
\* in the stream after their own filtered queries.
C2_Witness ==
    /\ \A t \in Tasks :
         /\ req[t].endpoint = "chat_askdocs"
         /\ req[t].pc = "conv"
         /\ req[t].hasSet
         /\ lastQuery[t].entity = "Configuration"
         /\ lastQuery[t].afterSet
    /\ req[1].roles # req[2].roles
    /\ req[1].roles # {}
    /\ req[2].roles # {}

C4_NeverReadBeforeSet ==
    \A t \in Tasks :
        /\ lastQuery[t].read => lastQuery[t].afterSet
        /\ (lastQuery[t].read /\ ~req[t].hasSet) => lastQuery[t].roles = {}

\* C5: in a request to an endpoint depending on
\* get_current_user_with_context, set with the user's role names precedes
\* every Configuration query, those of the streaming generator included.
C5_SetBeforeConfigurationQuery ==
    \A t \in Tasks :
        req[t].endpoint \in {"chat_askdocs", "list_configurations"} =>
            /\ req[t].pc \notin {"idle", "auth"} /\ req[t].status \notin {401, 500}
                 => /\ req[t].hasSet
                    /\ current_user_roles[t] =
                         [isset |-> TRUE, val |-> user_roles[req[t].cred]]
            /\ lastQuery[t].entity = "Configuration" =>
                 /\ lastQuery[t].afterSet
                 /\ lastQuery[t].roles = user_roles[req[t].cred]

\* chat_askdocs past the configuration query of its streaming generator,
\* for a user holding roles.
C5_Witness ==
    \E t \in Tasks :
        /\ req[t].endpoint = "chat_askdocs"
        /\ req[t].pc = "conv"
        /\ lastQuery[t].entity = "Configuration"
        /\ lastQuery[t].options # <<>>
        /\ lastQuery[t].roles = user_roles[req[t].cred]

\* C6: with ADMIN in the role set of the context, a Configuration query
\* returns every row it selects, whatever the grants.
C6_AdminSeesAll ==
    LET q == lastQuery[UnitTask] IN
    (/\ q.entity = "Configuration"
     /\ unit.qAt >= 1
     /\ "ADMIN" \in RolesAtQuery)
    => /\ q.rows = q.where
       /\ q.options = <<>>

\* ADMIN together with another role, and a returned row with no grant.
C6_Witness ==
    LET q == lastQuery[UnitTask] IN
    /\ unit.qAt >= 1
    /\ RolesAtQuery = {"ADMIN", "MANAGER"}
    /\ q.entity = "Configuration"
    /\ \E c \in q.rows : role_configuration_access[c] = {}

\* C7: when the context is empty or was never set, a Configuration query
\* is passed through unfiltered and returns every row it selects.
C7_FailOpen ==
    \A t \in Tasks :
        (/\ lastQuery[t].entity = "Configuration"
         /\ \/ ~lastQuery[t].afterSet
            \/ req[t].roles = {})
        => /\ lastQuery[t].options = <<>>
           /\ lastQuery[t].rows = lastQuery[t].where

\* submit_message_feedback, through get_current_user, found a
\* configuration none of the caller's roles is granted.
C7_Witness ==
    \E t \in Tasks :
        /\ req[t].endpoint = "submit_message_feedback"
        /\ req[t].pc = "done"
        /\ req[t].roles # {}
        /\ "ADMIN" \notin req[t].roles
        /\ req[t].rows # {}
        /\ \A c \in req[t].rows :
             role_configuration_access[c] \cap req[t].roles = {}

\* C8: reading the context never fails: no execution raises in the
\* listener, no request fails for it (a request answered 500 raised an
\* exception of its handler), and a read made where set was never
\* called returns the empty set and leaves the statement unfiltered.
C8_GetNeverFails ==
    \A t \in Tasks :
        /\ ~lastQuery[t].raised
        /\ req[t].status = 500 => req[t].raised # None
        /\ (lastQuery[t].read /\ ~lastQuery[t].afterSet) =>
             /\ lastQuery[t].roles = {}
             /\ lastQuery[t].options = <<>>

\* list_all_configurations, through get_current_user, ran to its end on
\* reads of an unset context.
C8_Witness ==
    \E t \in Tasks :
        /\ req[t].endpoint = "list_all_configurations"
        /\ req[t].pc = "done"
        /\ req[t].status = 200
        /\ lastQuery[t].read
        /\ ~lastQuery[t].afterSet

\* C9: after any calls of set in one request, get returns the value of
\* the last call and a query is filtered by the value of the last call
\* before it; a repeated value changes nothing.
C9_LastWriteWins ==
    LET q == lastQuery[UnitTask]
        n == Len(unit.sets) IN
    /\ n >= 1 =>
         current_user_roles[UnitTask] = [isset |-> TRUE, val |-> unit.sets[n]]
    /\ (q.entity = "Configuration" /\ unit.qAt >= 1) =>
         /\ q.roles = RolesAtQuery
         /\ ~q.raised
         /\ q.rows = IF RolesAtQuery = {} \/ "ADMIN" \in RolesAtQuery
                     THEN q.where
                     ELSE Granted(q.where, RolesAtQuery)

\* set called twice with different values, then a query the second value
\* filters differently from the first.
C9_Witness ==
    LET q == lastQuery[UnitTask] IN
    /\ Len(unit.sets) = 2
    /\ unit.qAt = 2
    /\ unit.sets[1] = {"MANAGER"}
    /\ unit.sets[2] = {"OIS"}
    /\ q.entity = "Configuration"
    /\ q.rows = Granted(q.where, {"OIS"})
    /\ q.rows # Granted(q.where, {"MANAGER"})

\* C10: the guard succeeds iff the principal holds one of the required
\* roles, and otherwise answers 403 with the required roles as detail;
\* require_admin succeeds iff the principal holds ADMIN.
C10_GuardIffIntersect ==
    unit.outcome.status # 0 =>
        /\ unit.outcome.status = 200 <=> unit.roles \cap Range(unit.required) # {}
        /\ unit.outcome.status # 200 =>
             /\ unit.outcome.status = 403
             /\ unit.outcome.detail = unit.required
        /\ unit.required = require_admin =>
             (unit.outcome.status = 200 <=> "ADMIN" \in unit.roles)

\* A principal holding one of two required roles passes.
C10_Witness ==
    /\ unit.outcome.status = 200
    /\ Len(unit.required) = 2
    /\ unit.required[1] \notin unit.roles
    /\ unit.required[2] \in unit.roles

\* C11: a request to an /admin endpoint of a principal without ADMIN is
\* answered 403 and its handler has no effect: nothing committed, no rows
\* returned, no external fetch made, no exception instead of the 403.
C11_AdminOnly ==
    \A t \in Tasks :
        (/\ req[t].endpoint \in AdminEndpoints
         /\ req[t].pc \notin {"idle", "auth"}
         /\ req[t].status # 401
         /\ "ADMIN" \notin req[t].roles)
        => /\ req[t].pc = "done"
           /\ req[t].status = 403
           /\ req[t].rows = {}
           /\ req[t].committed = {}
           /\ ~req[t].fetched
           /\ req[t].raised = None
           /\ req[t].detail = None

\* A MANAGER asked to be given ADMIN, with ids assign_user_roles accepts,
\* and holds the roles held before.
C11_Witness ==
    \E t \in Tasks :
        /\ req[t].endpoint = "assign_user_roles"
        /\ req[t].pc = "done"
        /\ req[t].status = 403
        /\ req[t].roles = {"MANAGER"}
        /\ req[t].target = req[t].cred
        /\ req[t].role_ids = <<"ADMIN">>
        /\ user_roles[req[t].cred] = {"MANAGER"}

\* C12: GET /admin/configurations succeeds iff the principal holds ADMIN,
\* and then returns every row of the configurations table, unfiltered,
\* whatever the grants and is_active; the filtered list of a principal
\* holding ADMIN returns every active configuration.
C12_AdminListsAll ==
    \A t \in Tasks :
        /\ (/\ req[t].endpoint = "list_all_configurations"
            /\ req[t].pc = "done"
            /\ req[t].status # 401)
           => /\ req[t].status = 200 <=> "ADMIN" \in req[t].roles
              /\ req[t].status = 200 =>
                   /\ req[t].rows = DOMAIN configurations
                   /\ lastQuery[t].options = <<>>
        /\ (/\ req[t].endpoint = "list_configurations"
            /\ req[t].pc = "done"
            /\ req[t].status = 200
            /\ "ADMIN" \in req[t].roles)
           => req[t].rows =
                {c \in DOMAIN configurations : configurations[c].is_active}

\* The role set {ADMIN} and the resources of the MANAGER scenario, the one
\* granted to OIS inactive: the admin endpoint returned both.
C12_Witness ==
    \E t \in Tasks :
        /\ req[t].endpoint = "list_all_configurations"
        /\ req[t].pc = "done"
        /\ req[t].status = 200
        /\ req[t].roles = {"ADMIN"}
        /\ role_configuration_access["c1"] = {"MANAGER", "ADMIN"}
        /\ role_configuration_access["c2"] = {"OIS"}
        /\ ~configurations["c2"].is_active
        /\ {"c1", "c2"} \subseteq req[t].rows

\* C13: a relationship load is executed as issued, whatever the context
\* holds: the listener neither reads the context nor attaches a criterion,
\* and the load of Configuration.roles or Configuration.domain for a row a
\* filtered query returned gives the complete relationship.
C13_LoadsNotFiltered ==
    unit.of # None =>
        /\ ~unit.load.read
        /\ ~unit.load.raised
        /\ unit.load.options = <<>>
        /\ unit.load.rows = unit.load.where
        /\ unit.load.entity = "Role" =>
             unit.load.rows = role_configuration_access[unit.of]
        /\ unit.load.entity = "Domain" =>
             unit.load.rows = {configurations[unit.of].domain_id}

\* The MANAGER scenario: the grant set of the configuration the filtered
\* query returned is loaded whole, the role the caller does not hold
\* included.
C13_Witness ==
    /\ unit.of = "c1"
    /\ unit.qAt >= 1
    /\ RolesAtQuery = {"MANAGER"}
    /\ current_user_roles[UnitTask].val = {"MANAGER"}
    /\ lastQuery[UnitTask].options = <<{"MANAGER"}>>
    /\ unit.load.entity = "Role"
    /\ unit.load.rows = {"MANAGER", "ADMIN"}

\* C14 as stated: a statement on another entity than Configuration is
\* handed to execution as issued, for every value of the context, and
\* returns the rows it selects.
C14_PassThroughUnmodified ==
    \A t \in Tasks :
        lastQuery[t].entity \notin {None, "Configuration"} =>
            /\ lastQuery[t].options = <<>>
            /\ lastQuery[t].rows = lastQuery[t].where

\* C14 amended: a statement on another entity than Configuration returns
\* the rows it selects, for every value of the context; the listener does
\* not look at the entity, and attaches the criterion on Configuration to
\* the statement exactly when the context holds a non-empty role set
\* without ADMIN and the execution is no load.
C14_RowsUnaffected ==
    \A t \in Tasks :
        lastQuery[t].entity \notin {None, "Configuration"} =>
            /\ lastQuery[t].rows = lastQuery[t].where
            /\ lastQuery[t].options # <<>> <=>
                 /\ lastQuery[t].read
                 /\ lastQuery[t].roles # {}
                 /\ "ADMIN" \notin lastQuery[t].roles
            /\ lastQuery[t].options # <<>> =>
                 lastQuery[t].options = <<lastQuery[t].roles>>

\* chat_askdocs of a MANAGER found its conversation by a statement that
\* carries the criterion.
C14_Witness ==
    \E t \in Tasks :
        /\ req[t].endpoint = "chat_askdocs"
        /\ lastQuery[t].entity = "Conversation"
        /\ lastQuery[t].options = <<{"MANAGER"}>>
        /\ lastQuery[t].rows = {req[t].conv}

\* C15: in chat_askdocs a configuration_id no row has and a
\* configuration_id of a row the caller's non-empty role set without ADMIN
\* is not granted end the same way: the stream ends after the one error
\* event 'Configuration not found or access denied', with no conversation
\* created, no message persisted, nothing raised and no provider called.
C15_InvisibleAsMissing ==
    \A t \in Tasks :
        LET r == req[t] IN
        (/\ r.endpoint = "chat_askdocs"
         /\ r.status = 200
         /\ r.pc # "cfg_check"
         /\ \/ r.cfg \notin DOMAIN configurations
            \/ /\ r.roles # {}
               /\ "ADMIN" \notin r.roles
               /\ role_configuration_access[r.cfg] \cap r.roles = {})
        => /\ r.pc = "done"
           /\ r.event = "error"
           /\ r.detail = "Configuration not found or access denied"
           /\ r.rows = {}
           /\ r.committed = {}
           /\ r.raised = None
           /\ ~r.fetched
           /\ lastQuery[t].entity = "Configuration"
           /\ lastQuery[t].rows = {}

\* A MANAGER asked for the configuration granted to OIS, after an earlier
\* request had created a conversation: the query selected the row, the
\* criterion removed it, and the stream ended as for a configuration no
\* row has; no message is stored.
C15_Witness ==
    \E t \in Tasks :
        /\ req[t].endpoint = "chat_askdocs"
        /\ req[t].cfg = "c2"
        /\ req[t].roles = {"MANAGER"}
        /\ lastQuery[t].where = {"c2"}
        /\ lastQuery[t].options = <<{"MANAGER"}>>
        /\ req[t].pc = "done"
        /\ req[t].status = 200
        /\ req[t].event = "error"
        /\ req[t].detail = "Configuration not found or access denied"
        /\ req[t].committed = {}
        /\ DOMAIN conversations # DOMAIN SeedConversations
        /\ messages = <<>>

\* C17 as stated: a request that has not finished, or that failed, has
\* committed none of its writes.
C17_NoPartialCommit ==
    \A t \in Tasks :
        (req[t].pc # "done" \/ req[t].raised # None) =>
            req[t].committed = {}

\* C19 as stated: a signup ends 201 with one user created that holds
\* exactly the USER role, the USER role created first where it was missing,
\* or ends 422 with nothing created; no two users share an attid or an
\* email.
C19_SignupCreatesOneUser ==
    /\ \A t \in Tasks :
          (req[t].endpoint = "signup" /\ req[t].pc = "done") =>
              \/ /\ req[t].status = 201
                 /\ \E u \in DOMAIN users :
                       /\ req[t].rows = {u}
                       /\ req[t].committed = {<<"User", u>>}
                       /\ users[u].attid = req[t].attid
                       /\ users[u].email = req[t].email
                       /\ user_roles[u] = {"USER"}
                 /\ "USER" \in roles_table
              \/ /\ req[t].status = 422
                 /\ req[t].committed = {}
    /\ \A u, v \in DOMAIN users :
          (users[u].attid = users[v].attid \/ users[u].email = users[v].email)
              => u = v

C21_Unauthenticated401 ==
    \A t \in Tasks :
        LET r == req[t] IN
        (/\ r.pc \notin {"idle", "token", "auth"}
         /\ r.endpoint \in Endpoints \cup {"get_current_user_profile"}
         /\ \/ r.token = <<>>
            \/ ~decode_access_token(r.token).ok
            \/ r.token[2] = None
            \/ r.token[2] \notin DOMAIN users
            \/ ~users[r.token[2]].is_active)
        => /\ r.pc = "done"
           /\ r.status = 401
           /\ r.committed = {}
           /\ r.rows = {}
           /\ r.event = None
           /\ ~r.hasSet
           /\ ~r.fetched
           /\ current_user_roles[t] = Unset

\* C22: a chat_askdocs request without configuration_id ends 422 in the
\* endpoint body, before the stream starts: no event is sent, no statement
\* but the user lookup is executed, nothing is committed and no provider is
\* called.
C22_MissingConfigurationId ==
    \A t \in Tasks :
        LET r == req[t] IN
        (/\ r.endpoint = "chat_askdocs"
         /\ r.cfg = None
         /\ r.pc \notin {"idle", "auth", "handler"}
         /\ r.status # 401)
        => /\ r.pc = "done"
           /\ r.status = 422
           /\ r.event = None
           /\ r.committed = {}
           /\ r.raised = None
           /\ ~r.fetched
           /\ lastQuery[t].entity = "User"

\* The request asked for a new conversation and none was created for it.
C22_Witness ==
    \E t \in Tasks :
        /\ req[t].endpoint = "chat_askdocs"
        /\ req[t].cfg = None
        /\ req[t].conv = 0
        /\ req[t].pc = "done"
        /\ req[t].status = 422
        /\ req[t].cred \in DOMAIN users
        /\ DOMAIN conversations = DOMAIN SeedConversations
        /\ messages = <<>>

\* C23 as stated: a chat_askatt request without conversation_id that was
\* authenticated ends after the events conversation_id, token, usage, end
\* and message_id, in this order: the last event sent is message_id, sent
\* after the assistant message was persisted, and nothing was raised.
C23_EventOrder ==
    \A t \in Tasks :
        LET r == req[t] IN
        (/\ r.endpoint = "chat_askatt"
         /\ r.pc = "done"
         /\ r.status = 200
         /\ \E k \in DOMAIN conversations : <<"Conversation", k>> \in r.committed)
        => /\ r.event = "message_id"
           /\ r.raised = None
           /\ \E i \in DOMAIN messages :
                 /\ messages[i].conversation_id = r.conv
                 /\ messages[i].role = "assistant"
                 /\ <<"Message", i>> \in r.committed

\* C25 as stated: a chat request of either endpoint that got past the
\* conversation step ends with the assistant message persisted (its
\* content the forwarded tokens in order, with the forwarded usage and
\* sources).
C25_AssistantMessagePersisted ==
    \A t \in Tasks :
        LET r == req[t] IN
        (/\ IsChat(r.endpoint)
         /\ r.pc = "done"
         /\ r.status = 200
         /\ r.event # "error")
        => \E i \in DOMAIN messages :
              /\ messages[i].conversation_id = r.conv
              /\ messages[i].role = "assistant"

\* C26 as stated: once a chat request is past the step that saves the user
\* message, the user message is persisted in its conversation (and only
\* then is the history read and the provider called).
C26_UserMessageFirst ==
    \A t \in Tasks :
        LET r == req[t] IN
        (/\ IsChat(r.endpoint)
         /\ r.status = 200
         /\ r.pc \notin {"cfg_check", "conv", "add"}
         /\ r.event # "error")
        => \E i \in DOMAIN messages :
              /\ messages[i].conversation_id = r.conv
              /\ messages[i].role = "user"
              /\ <<"Message", i>> \in r.committed

\* C24: a conversation is removed, and its messages change, only by a
\* delete request of its owner; a delete request on a conversation no row
\* has ends 404, on another user's conversation 403, and a chat request
\* that names such a conversation ends after the one error event: each
\* leaves every conversation and every message as it was and commits
\* nothing.
C24_OwnerOnly ==
    [][/\ \A k \in DOMAIN conversations :
             (\/ k \notin DOMAIN conversations'
              \/ SelectSeq(messages, LAMBDA m : m.conversation_id = k)
                   # SelectSeq(messages', LAMBDA m : m.conversation_id = k))
             => \E t \in Tasks :
                   /\ req[t].endpoint = "delete_conversation_endpoint"
                   /\ req[t].conv = k
                   /\ req[t].cred = conversations[k].user_id
       /\ \A t \in Tasks :
             LET r == req[t] IN
             (/\ \/ r.endpoint = "delete_conversation_endpoint"
                    /\ r.pc = "handler"
                 \/ IsChat(r.endpoint) /\ r.pc = "conv" /\ r.conv # 0
              /\ \/ r.conv \notin DOMAIN conversations
                 \/ conversations[r.conv].user_id # r.cred
              /\ req'[t] # r)
             => /\ req'[t].pc = "done"
                /\ req'[t].committed = {}
                /\ req'[t].raised = None
                /\ conversations' = conversations
                /\ messages' = messages
                /\ IF IsChat(r.endpoint)
                   THEN /\ req'[t].event = "error"
                        /\ req'[t].status = 200
                   ELSE req'[t].status =
                           IF r.conv \in DOMAIN conversations
                           THEN 403 ELSE 404
                /\ req'[t].detail =
                      IF r.conv \in DOMAIN conversations
                      THEN "You don't have access to this conversation"
                      ELSE "Conversation not found"
    ]_vars

\* u2 asked to delete the conversation of u1 and was refused; the
\* conversation is still there.
C24_Witness ==
    \E t \in Tasks :
        /\ req[t].endpoint = "delete_conversation_endpoint"
        /\ req[t].pc = "done"
        /\ req[t].status = 403
        /\ req[t].conv \in DOMAIN conversations
        /\ conversations[req[t].conv].user_id # req[t].cred

\* C27 as stated: assign_user_roles answers 200 exactly when a row has
\* the target user id and every requested role id, and then the user's
\* role set is exactly the requested roles; otherwise it answers 404 and
\* leaves every role set as it was.
C27_AssignIffAllExist ==
    [][\A t \in Tasks :
          LET r == req[t] IN
          (/\ r.endpoint = "assign_user_roles"
           /\ r.pc = "handler"
           /\ req'[t].pc = "done")
          => IF /\ r.target \in DOMAIN users
                /\ Range(r.role_ids) \subseteq roles_table
             THEN /\ req'[t].status = 200
                  /\ user_roles' =
                       [user_roles EXCEPT ![r.target] = Range(r.role_ids)]
             ELSE /\ req'[t].status = 404
                  /\ req'[t].committed = {}
                  /\ user_roles' = user_roles
    ]_vars

\* C28 as stated: no two configurations of one domain have the same
\* config_key.
C28_UniqueConfigKey ==
    \A c, d \in DOMAIN configurations :
        (/\ configurations[c].domain_id = configurations[d].domain_id
         /\ configurations[c].config_key = configurations[d].config_key)
        => c = d

\* C29 as stated: a feedback request on a message no row has ends 404 and
\* one on a message of another user's conversation ends 403, both with no
\* record created; any other persists exactly one record, with rating
\* "up" for a rating of 4 or 5 and "down" for 1 to 3, and the created
\* record is returned to the caller.
C29_FeedbackPersistedAndReturned ==
    [][\A t \in Tasks :
         LET r == req[t]
             m == r.message_id
             k == messages[m].conversation_id IN
         (/\ r.endpoint = "submit_message_feedback"
          /\ r.pc = "handler"
          /\ req'[t].pc = "done")
         => IF m \notin DOMAIN messages
            THEN req'[t].status = 404 /\ feedback' = feedback
            ELSE IF k \notin DOMAIN conversations
                    \/ conversations[k].user_id # r.cred
            THEN req'[t].status = 403 /\ feedback' = feedback
            ELSE /\ Len(feedback') = Len(feedback) + 1
                 /\ SubSeq(feedback', 1, Len(feedback)) = feedback
                 /\ LET row == feedback'[Len(feedback')] IN
                    /\ row.message_id = m
                    /\ row.user_id = r.cred
                    /\ row.conversation_id = k
                    /\ row.rating = IF r.rating \in {4, 5} THEN "up" ELSE "down"
                 /\ req'[t].status = 200
                 /\ req'[t].event = "feedback"
                 /\ req'[t].raised = None]_vars


\* C30 as stated: the role set of a request is the one the database
\* holds when the request authenticates, whatever the token: an /admin
\* request passes the guard exactly when that set holds ADMIN, and
\* list_configurations returns no configuration that is granted to none
\* of its roles (unless it holds ADMIN), so once assign_user_roles has
\* committed the removal of a role, a configuration granted only to that
\* role is no longer returned.
C30_RolesFromDatabase ==
    [][\A t \in Tasks :
         LET r == req[t] IN
         /\ (r.pc = "auth" /\ req'[t].pc = "handler")
            => /\ req'[t].roles = user_roles[r.cred]
               /\ UsesContext(r.endpoint)
                    => current_user_roles'[t] =
                         [isset |-> TRUE, val |-> user_roles[r.cred]]
               /\ Guarded(r.endpoint) => "ADMIN" \in user_roles[r.cred]
         /\ (r.pc = "auth" /\ r.cred \in DOMAIN users
             /\ Guarded(r.endpoint) /\ "ADMIN" \notin user_roles[r.cred])
            => req'[t].pc = "done"
         /\ (r.endpoint = "list_configurations" /\ r.pc = "handler"
             /\ req'[t].pc = "done")
            => \A c \in req'[t].rows :
                  \/ "ADMIN" \in user_roles[r.cred]
                  \/ role_configuration_access[c] \cap user_roles[r.cred] # {}
      ]_vars


====
